---- MODULE Spec2Model ----
(***************************************************************************)
(* Request dispatch of panther (src/panther/main.py): Panther.__call__ and *)
(* Panther.run serving requests as cooperative tasks that share            *)
(* config['middlewares'] and config['urls'].                               *)
(*                                                                         *)
(* A task is suspended only inside an await.  Every action below is one    *)
(* resumption: it takes the outcome of the await the task is suspended in  *)
(* and runs the synchronous code of run() up to the invocation of the next *)
(* awaited call.                                                           *)
(***************************************************************************)
EXTENDS Integers, Sequences, FiniteSets, TLC

\* ------------------------------------------------------------------ bounds
NumRequests == 2        \* requests dispatched in one run
MaxFaults == 1          \* hooks and endpoints that raise in one run

Requests == 1..NumRequests

\* ------------------------------------------------------------ python values
None == "None"

\* A scalar detail and a mapping detail of an APIException.
\* `added` lists the after hooks that put something into a response body.
Str(s) == [kind |-> "str", key |-> None, val |-> s, added |-> <<>>]
Dict(k, v) == [kind |-> "dict", key |-> k, val |-> v, added |-> <<>>]
NoData == [kind |-> None, key |-> None, val |-> None, added |-> <<>>]

\* Paths are strings, modelled as sequences of characters.
UsersPath == <<"/", "u">>
RootPath == <<"/">>
Paths == {UsersPath, RootPath}

\* status.HTTP_* used by run()
HTTP_404_NOT_FOUND == 404
HTTP_500_INTERNAL_SERVER_ERROR == 500

\* The APIExceptions raised in a run: by a before hook, by an endpoint and by
\* an after hook.
APIException(status_code, detail) == [status_code |-> status_code, detail |-> detail]
BeforeErrors == {APIException(403, Str("forbidden"))}
EndpointErrors == {APIException(409, Str("conflict"))}
AfterErrors == {APIException(400, Dict("field", "x"))}
\* An exception that is no APIException carries nothing run() reads.
OtherException == APIException(0, NoData)

\* Request(scope=scope, body=body); via lists the before hooks that replaced it.
Request(scope) == [path |-> scope, via |-> <<>>]
NoRequest == [path |-> <<>>, via |-> <<None>>]

\* Response(data=..., status_code=...)
Response(data, status_code) == [status_code |-> status_code, data |-> data]
NoResponse == Response(NoData, 0)

\* list.reverse() that loses the last item.
Reverse_drop_last(s) == [i \in 1..(Len(s) - 1) |-> s[Len(s) - i]]

\* list.reverse() that leaves the list as it is.
Reverse_in_place_lost(s) == s

\* list.reverse(): the items of the list, last first.
Reverse(s) == [i \in 1..Len(s) |-> s[Len(s) + 1 - i]]

\* ---------------------------------------------------------------- settings
Ellipsis == "Ellipsis"

\* An item of settings['Middlewares']: the class its path imports to, and
\* whether that class is a subclass of BaseMiddleware.
MiddlewareItem(path, base) == [path |-> path, base |-> base]

\* An item of a urls dict, in the dict's order: url -> endpoint, or url -> dict.
Leaf(url, endpoint) == [url |-> url, isdict |-> FALSE, endpoint |-> endpoint, sub |-> <<>>]
Group(url, sub) == [url |-> url, isdict |-> TRUE, endpoint |-> None, sub |-> sub]

Settings(mws, urlsdict) == [Middlewares |-> mws, urls |-> urlsdict]

\* The configuration the served application of Init was loaded from.
ServingSettings ==
    Settings(<<MiddlewareItem("A", TRUE), MiddlewareItem("B", TRUE),
               MiddlewareItem("C", TRUE)>>,
             <<Leaf(<<"/", "u">>, "users_api")>>)

\* config['urls'] before collect_urls: no route.
NoUrls == [p \in {} |-> None]

\* No APIException translated yet.
NoProbe == [e |-> APIException(0, NoData), response |-> NoResponse, done |-> FALSE]

\* ------------------------------------------------------------------- state
VARIABLES
    middlewares,    \* config['middlewares'], the shared chain
    urls,           \* config['urls'], the route table: path -> endpoint
    tasks,          \* per request: the task running Panther.run and what it did
    faults,         \* exceptions raised so far by hooks and endpoints
    app,            \* the Panther object: self.settings, what __init__ logged
    probe           \* an APIException and what handle_exceptions made of it

vars == <<middlewares, urls, tasks, faults, app, probe>>

\* The chain in registration order, as load_middlewares() built it.
Registered == <<"A", "B", "C">>

Terminal == {"done", "crashed"}

IdleTask ==
    [ pc         |-> "idle",       \* the await the task is suspended in
      scope      |-> <<>>,         \* scope['path']
      request    |-> NoRequest,    \* local request
      monitoring |-> 0,            \* local monitoring_middleware (0: not created)
      opened     |-> 0,            \* calls of monitoring_middleware.before
      endpoint   |-> None,         \* local endpoint
      it         |-> 0,            \* index of the running list iterator
      response   |-> NoResponse,   \* local response
      calls      |-> <<>>,         \* hooks and handler invoked, in order
      errors     |-> <<>>,         \* what the invoked hooks and handler raised
      emitted    |-> <<>>,         \* calls of http_response
      logged     |-> 0,            \* calls of logger.critical
      alone      |-> TRUE ]        \* no other request in flight so far

Init ==
    /\ middlewares = Registered
    /\ urls = (UsersPath :> "users_api")
    /\ tasks = [r \in Requests |-> IdleTask]
    /\ faults = 0
    /\ app = [settings |-> ServingSettings, loaded |-> TRUE,
              errors |-> 0, criticals |-> 0]
    /\ probe = NoProbe

\* ------------------------------------------------- the pieces of run()

\* One more call made by the task: a hook or the endpoint, and its argument.
Invoke(t, op, who, arg) ==
    [t EXCEPT !.calls = Append(@, [op |-> op, who |-> who, arg |-> arg])]

\* What the awaited call raised: the call (its place `at` in calls), the
\* class of the exception and, for an APIException, the exception.
Raised(t, kind, e) ==
    [t EXCEPT !.errors = Append(@, [op |-> t.pc, who |-> t.calls[Len(t.calls)].who,
                                    at |-> Len(t.calls), kind |-> kind, e |-> e])]

\* find_endpoint with `url.startswith(path)` for `path == url`.
find_endpoint_startswith(path) ==
    LET match == {url \in DOMAIN urls :
                    Len(path) <= Len(url) /\ SubSeq(url, 1, Len(path)) = path} IN
    IF match # {} THEN urls[CHOOSE url \in match : TRUE] ELSE None

\* find_endpoint with `url.endswith(path)` for `path == url`.
find_endpoint_endswith(path) ==
    LET match == {url \in DOMAIN urls :
                    /\ Len(path) <= Len(url)
                    /\ SubSeq(url, Len(url) - Len(path) + 1, Len(url)) = path} IN
    IF match # {} THEN urls[CHOOSE url \in match : TRUE] ELSE None

\* find_endpoint: the first key of config['urls'] equal to path, else None.
find_endpoint(path) ==
    IF \E url \in DOMAIN urls : path = url THEN urls[path] ELSE None

\* handle_exceptions without the {'detail': ...} around a detail that is no dict.
handle_exceptions_unwrapped(e) == Response(e.detail, e.status_code)

\* handle_exceptions with a fixed status code.
handle_exceptions_400(e) ==
    Response(IF e.detail.kind = "dict" THEN e.detail
             ELSE Dict("detail", e.detail.val),
             400)

\* handle_exceptions: the Response of an APIException.
handle_exceptions(e) ==
    Response(IF e.detail.kind = "dict" THEN e.detail
             ELSE Dict("detail", e.detail.val),
             e.status_code)

\* http_response with one monitoring object for all requests.
http_response_shared_monitoring(t, status_code, exception, body) ==
    [t EXCEPT !.pc = "done",
              !.emitted = Append(@, [status_code |-> status_code,
                                     monitoring |-> 1,
                                     exception |-> exception,
                                     body |-> body])]

\* await http_response(send, status_code=, monitoring=, exception=, body=):
\* the response goes to the transport, with the task's own monitoring object.
\* Nothing of run() follows the call on any path: the task is done.
http_response(t, status_code, exception, body) ==
    [t EXCEPT !.pc = "done",
              !.emitted = Append(@, [status_code |-> status_code,
                                     monitoring |-> t.monitoring,
                                     exception |-> exception,
                                     body |-> body])]

\* response = await endpoint(request=request)
call_endpoint(t) ==
    [Invoke(t, "endpoint", t.endpoint, t.request) EXCEPT !.pc = "endpoint"]

\* The before loop with `await middleware.before(request=request)` not
\* assigned to request.
before_loop_not_assigned(t, chain) ==
    IF t.it < Len(chain)
    THEN [Invoke(t, "before", chain[t.it + 1], Request(t.scope))
            EXCEPT !.pc = "before", !.it = t.it + 1]
    ELSE call_endpoint(t)

\* The next step of `for middleware in config['middlewares']:
\*     request = await middleware.before(request=request)`
\* A list iterator holds an index into the list object: it yields chain[it]
\* of the list as it is now, and ends when the index reaches its length.
before_loop(t, chain) ==
    IF t.it < Len(chain)
    THEN [Invoke(t, "before", chain[t.it + 1], t.request)
            EXCEPT !.pc = "before", !.it = t.it + 1]
    ELSE call_endpoint(t)

\* The next step of `for middleware in config['middlewares']:
\*     response = await middleware.after(response=response)`, and after the
\* loop the http_response of the normal exit.
after_loop(t, chain) ==
    IF t.it < Len(chain)
    THEN [Invoke(t, "after", chain[t.it + 1], t.response)
            EXCEPT !.pc = "after", !.it = t.it + 1]
    ELSE http_response(t, t.response.status_code, FALSE, t.response.data)

\* config['middlewares'].reverse() and the first step of the after loop;
\* `chain` is the list before the reversal.
after_pass(t, chain) == after_loop([t EXCEPT !.it = 0], Reverse(chain))

\* `if endpoint is None: return await http_response(404, exception=True)`
\* else the first step of the before loop.
resolve(t, chain) ==
    LET endpoint == find_endpoint(t.request.path) IN
    IF endpoint = None
    THEN http_response(t, HTTP_404_NOT_FOUND, TRUE, NoData)
    ELSE before_loop([t EXCEPT !.endpoint = endpoint, !.it = 0], chain)

\* except APIException with a return of the translated response in it.
except_APIException_return(t, e, chain) ==
    http_response([Raised(t, "APIException", e)
                     EXCEPT !.response = handle_exceptions(e)],
                  e.status_code, FALSE, handle_exceptions(e).data)

\* `except APIException as e: response = self.handle_exceptions(e)` of the
\* before loop and the endpoint call, and the code that follows it.
except_APIException(t, e, chain) ==
    after_pass([Raised(t, "APIException", e)
                  EXCEPT !.response = handle_exceptions(e)], chain)

\* except Exception that returns without a call of http_response.
except_Exception_no_response(t) ==
    [Raised(t, "Exception", OtherException) EXCEPT !.logged = @ + 1, !.pc = "done"]

\* except Exception without the logger.critical.
except_Exception_not_logged(t) ==
    http_response(Raised(t, "Exception", OtherException),
                  HTTP_500_INTERNAL_SERVER_ERROR, TRUE, NoData)

\* `except Exception as e: logger.critical(e); return await http_response(500,
\* exception=True)`
except_Exception(t) ==
    http_response([Raised(t, "Exception", OtherException) EXCEPT !.logged = @ + 1],
                  HTTP_500_INTERNAL_SERVER_ERROR, TRUE, NoData)

\* What a middleware's before hook returns: a request that shows the hook ran.
before_hook(m, request) == [request EXCEPT !.via = Append(@, m)]

\* What a middleware's after hook returns: a response that shows the hook ran.
after_hook(m, response) == [response EXCEPT !.data.added = Append(@, m)]

\* What the endpoint returns.
endpoint_result(request) == Response(Dict("ok", "true"), 200)

\* `except APIException as e: response = self.handle_exceptions(e)` inside the
\* after loop, and the next step of the loop.
after_except_APIException(t, e, chain) ==
    after_loop([Raised(t, "APIException", e)
                  EXCEPT !.response = handle_exceptions(e)], chain)

\* ----------------------------------------------------------------- actions
InFlight(r) == tasks[r].pc \notin {"idle"} \cup Terminal

Resume(r, t) ==
    /\ tasks' = [tasks EXCEPT ![r] = t]
    /\ UNCHANGED <<faults, app, probe>>

\* The awaited call raises: the task resumes in the exception's handler.
Throw(r, t) ==
    /\ faults < MaxFaults
    /\ faults' = faults + 1
    /\ tasks' = [tasks EXCEPT ![r] = t]
    /\ UNCHANGED <<app, probe>>

\* `endpoint(request=request)` can be called: Ellipsis is no callable.
Callable(endpoint) == endpoint # Ellipsis

\* __call__: the task group creates the task and run() starts: the body is
\* read, the Request and the monitoring middleware are created and
\* `await monitoring_middleware.before(request=request)` is invoked.  (The
\* await of read_body is folded in: run() touches nothing shared before the
\* monitoring hook is awaited.)  Requests are numbered in the order they arrive.
Dispatch(r, path) ==
    /\ app.loaded
    /\ tasks[r].pc = "idle"
    /\ \A q \in Requests : q < r => tasks[q].pc # "idle"
    /\ tasks' = [q \in Requests |->
            IF q = r
            THEN [tasks[r] EXCEPT
                    !.pc = "monitoring",
                    !.scope = path,
                    !.request = Request(path),
                    !.monitoring = r,
                    !.opened = @ + 1,
                    !.alone = \A o \in Requests \ {r} : ~InFlight(o)]
            ELSE IF InFlight(q) THEN [tasks[q] EXCEPT !.alone = FALSE]
            ELSE tasks[q]]
    /\ UNCHANGED <<middlewares, urls, faults, app, probe>>

\* monitoring_middleware.before returns: find the endpoint, 404 or start the
\* before loop.
MonitoringReturns(r) ==
    /\ tasks[r].pc = "monitoring"
    /\ Resume(r, resolve(tasks[r], middlewares))
    /\ UNCHANGED <<middlewares, urls>>

\* A before hook returns a request: the next step of the before loop.
BeforeReturns(r) ==
    LET t == tasks[r] IN
    /\ t.pc = "before"
    /\ Resume(r, before_loop(
            [t EXCEPT !.request = before_hook(t.calls[Len(t.calls)].who, @)],
            middlewares))
    /\ UNCHANGED <<middlewares, urls>>

\* A before hook raises an APIException.
BeforeRaises(r, e) ==
    /\ tasks[r].pc = "before"
    /\ Throw(r, except_APIException(tasks[r], e, middlewares))
    /\ middlewares' = Reverse(middlewares)
    /\ UNCHANGED urls

\* A before hook raises another exception.
BeforeFails(r) ==
    /\ tasks[r].pc = "before"
    /\ Throw(r, except_Exception(tasks[r]))
    /\ UNCHANGED <<middlewares, urls>>

\* The endpoint returns a response: reverse the chain, start the after loop.
EndpointReturns(r) ==
    LET t == tasks[r] IN
    /\ t.pc = "endpoint"
    /\ Callable(t.endpoint)
    /\ Resume(r, after_pass([t EXCEPT !.response = endpoint_result(t.request)],
                            middlewares))
    /\ middlewares' = Reverse(middlewares)
    /\ UNCHANGED urls

\* The endpoint raises an APIException.
EndpointRaises(r, e) ==
    /\ tasks[r].pc = "endpoint"
    /\ Callable(tasks[r].endpoint)
    /\ Throw(r, except_APIException(tasks[r], e, middlewares))
    /\ middlewares' = Reverse(middlewares)
    /\ UNCHANGED urls

\* The endpoint raises another exception.
EndpointFails(r) ==
    /\ tasks[r].pc = "endpoint"
    /\ Callable(tasks[r].endpoint)
    /\ Throw(r, except_Exception(tasks[r]))
    /\ UNCHANGED <<middlewares, urls>>

\* An after hook returns a response: the next step of the after loop.
AfterReturns(r) ==
    LET t == tasks[r] IN
    /\ t.pc = "after"
    /\ Resume(r, after_loop(
            [t EXCEPT !.response = after_hook(t.calls[Len(t.calls)].who, @)],
            middlewares))
    /\ UNCHANGED <<middlewares, urls>>

\* An after hook raises an APIException: caught inside the loop.
AfterRaises(r, e) ==
    /\ tasks[r].pc = "after"
    /\ Throw(r, after_except_APIException(tasks[r], e, middlewares))
    /\ UNCHANGED <<middlewares, urls>>

\* An after hook raises another exception: nothing in run() catches it, the
\* task ends with it and the task group of __call__ re-raises it.
AfterFails(r) ==
    /\ tasks[r].pc = "after"
    /\ Throw(r, [Raised(tasks[r], "Exception", OtherException) EXCEPT !.pc = "crashed"])
    /\ UNCHANGED <<middlewares, urls>>

Next ==
    \/ \E r \in Requests, path \in Paths : Dispatch(r, path)
    \/ \E r \in Requests : MonitoringReturns(r)
    \/ \E r \in Requests : BeforeReturns(r)
    \/ \E r \in Requests, e \in BeforeErrors : BeforeRaises(r, e)
    \/ \E r \in Requests : BeforeFails(r)
    \/ \E r \in Requests : EndpointReturns(r)
    \/ \E r \in Requests, e \in EndpointErrors : EndpointRaises(r, e)
    \/ \E r \in Requests : EndpointFails(r)
    \/ \E r \in Requests : AfterReturns(r)
    \/ \E r \in Requests, e \in AfterErrors : AfterRaises(r, e)
    \/ \E r \in Requests : AfterFails(r)

Spec == Init /\ [][Next]_vars

\* ------------------------------------------------------------ load_configs
\* f'{pre_url}{url}' with the '/' of the recursive call left out.
group_url_no_slash(pre_url, url) == pre_url \o url

\* f'{pre_url}/{url}', the pre_url handed to the items of a nested dict.
group_url(pre_url, url) == pre_url \o <<"/">> \o url

\* f'{pre_url}{url}', the key of an endpoint.
endpoint_url(pre_url, url) == pre_url \o url

\* config['urls'][key] = endpoint
SetItem(table, key, endpoint) ==
    [p \in DOMAIN table \cup {key} |-> IF p = key THEN endpoint ELSE table[p]]

\* collect_urls(pre_url, urls): acc is config['urls'] and the calls of
\* logger.error so far.
RECURSIVE collect_urls(_, _, _)
collect_urls(pre_url, urlsdict, acc) ==
    IF urlsdict = <<>> THEN acc
    ELSE LET item == Head(urlsdict)
             placeholder == ~item.isdict /\ item.endpoint \in {Ellipsis, None}
             logged == [acc EXCEPT !.errors = @ + (IF placeholder THEN 1 ELSE 0)]
             next == IF item.isdict
                     THEN collect_urls(group_url(pre_url, item.url), item.sub, logged)
                     ELSE [logged EXCEPT !.urls =
                             SetItem(@, endpoint_url(pre_url, item.url), item.endpoint)]
         IN collect_urls(pre_url, Tail(urlsdict), next)

\* The body of load_middlewares' loop without the `continue`.
load_middleware_no_continue(acc, item) ==
    [middlewares |-> Append(acc.middlewares, item.path),
     criticals |-> acc.criticals + (IF item.base THEN 0 ELSE 1)]

\* The body of load_middlewares' loop: a class that is no subclass of
\* BaseMiddleware is logged critical and skipped, another is instantiated and
\* appended.
load_middleware(acc, item) ==
    IF ~item.base
    THEN [acc EXCEPT !.criticals = @ + 1]
    ELSE [acc EXCEPT !.middlewares = Append(@, item.path)]

RECURSIVE load_middlewares_loop(_, _)
load_middlewares_loop(items, acc) ==
    IF items = <<>> THEN acc
    ELSE load_middlewares_loop(Tail(items), load_middleware(acc, Head(items)))

\* load_middlewares(): the list, and the calls of logger.critical.
load_middlewares(items) ==
    load_middlewares_loop(items, [middlewares |-> <<>>, criticals |-> 0])

\* The configurations loaded.
MiddlewareSettings ==
    { <<>>,
      ServingSettings.Middlewares,
      <<MiddlewareItem("A", TRUE), MiddlewareItem("X", FALSE), MiddlewareItem("B", TRUE)>>,
      <<MiddlewareItem("X", FALSE)>> }
UrlSettings ==
    { <<>>,
      ServingSettings.urls,
      <<Group(<<"a">>, <<Leaf(<<"/", "u">>, "a_users_api"), Leaf(<<"/", "n">>, None)>>),
        Leaf(<<"/", "e">>, Ellipsis)>>,
      <<Group(<<"a">>, <<Leaf(<<"/", "u">>, "a_users_api")>>),
        Leaf(<<"/", "a", "/", "u">>, "users_api")>>,
      <<Group(<<"a">>, <<Group(<<"b">>, <<Leaf(<<"/", "u">>, "ab_users_api")>>),
                        Leaf(<<"/", "u">>, "a_users_api")>>),
        Leaf(<<"/", "u">>, "users_api")>> }
LoadSettings == {Settings(m, u) : m \in MiddlewareSettings, u \in UrlSettings}

\* The paths requested of a loaded application.
RequestPaths ==
    Paths \cup { <<"u">>, <<"/", "a">>, <<"/", "a", "/", "u">>, <<"/", "a", "/", "n">>,
                 <<"/", "e">>, <<"/", "a", "/", "b", "/", "u">>, <<"a", "/", "u">> }

\* Before __init__: settings read, nothing loaded.
InitLoad ==
    /\ middlewares = <<>>
    /\ urls = NoUrls
    /\ tasks = [r \in Requests |-> IdleTask]
    /\ faults = 0
    /\ \E settings \in LoadSettings :
            app = [settings |-> settings, loaded |-> FALSE, errors |-> 0, criticals |-> 0]
    /\ probe = NoProbe

\* __init__ -> load_configs: config['middlewares'] = self.load_middlewares(),
\* self.collect_urls('', urls).
LoadConfigs ==
    LET loaded == load_middlewares(app.settings.Middlewares)
        collected == collect_urls(<<>>, app.settings.urls, [urls |-> urls, errors |-> 0])
    IN
    /\ ~app.loaded
    /\ middlewares' = loaded.middlewares
    /\ urls' = collected.urls
    /\ app' = [app EXCEPT !.loaded = TRUE, !.errors = collected.errors,
                           !.criticals = loaded.criticals]
    /\ UNCHANGED <<tasks, faults, probe>>

\* `await endpoint(request=request)` with an endpoint that is no callable: the
\* TypeError is raised inside the try and caught by except Exception.
EndpointNotCallable(r) ==
    /\ tasks[r].pc = "endpoint"
    /\ ~Callable(tasks[r].endpoint)
    /\ Resume(r, except_Exception(tasks[r]))
    /\ UNCHANGED <<middlewares, urls>>

\* Loading, then one request served by what was loaded.
LoadNext ==
    \/ LoadConfigs
    \/ \E path \in RequestPaths : Dispatch(1, path)
    \/ MonitoringReturns(1)
    \/ BeforeReturns(1)
    \/ EndpointReturns(1)
    \/ \E e \in EndpointErrors : EndpointRaises(1, e)
    \/ EndpointNotCallable(1)
    \/ AfterReturns(1)

LoadSpec == InitLoad /\ [][LoadNext]_vars

\* ------------------------------------------- handle_exceptions on its own
\* The APIExceptions handle_exceptions is applied to.
StatusCodes == {400, 401, 403, 404, 409, 422}
Details ==
    {Str(x) : x \in {"bad input", "conflict", "forbidden", "", "detail"}}
        \cup {Dict(k, v) : k \in {"field", "detail"}, v \in {"x", ""}}

InitTranslate ==
    /\ middlewares = Registered
    /\ urls = (UsersPath :> "users_api")
    /\ tasks = [r \in Requests |-> IdleTask]
    /\ faults = 0
    /\ app = [settings |-> ServingSettings, loaded |-> TRUE,
              errors |-> 0, criticals |-> 0]
    /\ \E s \in StatusCodes, d \in Details :
            probe = [NoProbe EXCEPT !.e = APIException(s, d)]

\* self.handle_exceptions(e)
Translate ==
    /\ ~probe.done
    /\ probe' = [probe EXCEPT !.response = handle_exceptions(probe.e), !.done = TRUE]
    /\ UNCHANGED <<middlewares, urls, tasks, faults, app>>

TranslateSpec == InitTranslate /\ [][Translate]_vars

\* ------------------------------------------------- reading a task's history
Served(r) == tasks[r].endpoint # None

\* The calls of one kind, as the names called, in order.
Who(calls) == [i \in 1..Len(calls) |-> calls[i].who]
IsBefore(c) == c.op = "before"
IsEndpoint(c) == c.op = "endpoint"
IsAfter(c) == c.op = "after"
Befores(t) == Who(SelectSeq(t.calls, IsBefore))
Endpoints(t) == Who(SelectSeq(t.calls, IsEndpoint))
Afters(t) == Who(SelectSeq(t.calls, IsAfter))

\* The place of a middleware in the registration order.
Place(m) == CHOOSE i \in 1..Len(Registered) : Registered[i] = m

\* The errors of a task raised before the after pass, and in it.
EarlyErrors(t, kind) ==
    {i \in 1..Len(t.errors) :
        t.errors[i].op \in {"before", "endpoint"} /\ t.errors[i].kind = kind}
AfterErrorsOf(t, kind) ==
    {i \in 1..Len(t.errors) : t.errors[i].op = "after" /\ t.errors[i].kind = kind}

\* The one call of http_response a path makes.
Emitted(r, status_code, exception, body) ==
    tasks[r].emitted = << [status_code |-> status_code, monitoring |-> r,
                          exception |-> exception, body |-> body] >>

\* ------------------------------------------------------------------ claims

\* C1: order restored across requests. A request served after the requests
\* before it have completed, with no other request in flight, has its before
\* hooks invoked in registration order.
C1_OrderRestored ==
    \A r \in Requests :
        LET t == tasks[r] IN
        (r > 1 /\ t.alone /\ t.errors = <<>> /\ Endpoints(t) # <<>>)
            => Befores(t) = Registered

\* C2: hook order within a request. Every request served with no other request
\* in flight, in which nothing raises, calls before A, B, C, then the handler,
\* then after C, B, A.
C2_HookOrder ==
    \A r \in Requests :
        LET t == tasks[r] IN
        (t.alone /\ t.pc = "done" /\ t.errors = <<>> /\ Served(r))
            => /\ Befores(t) = Registered
               /\ Afters(t) = Reverse(Registered)
               /\ [i \in 1..Len(t.calls) |-> t.calls[i].op]
                    = [i \in 1..(2 * Len(Registered) + 1) |->
                         IF i <= Len(Registered) THEN "before"
                         ELSE IF i = Len(Registered) + 1 THEN "endpoint"
                         ELSE "after"]

\* C3: hook order under concurrency. A request that overlapped another one, in
\* which nothing raises, has every middleware's before hook invoked exactly
\* once, in registration order, and every after hook exactly once, in reverse
\* registration order.
C3_HookOrderConcurrent ==
    \A r \in Requests :
        LET t == tasks[r] IN
        (~t.alone /\ t.pc = "done" /\ t.errors = <<>> /\ Served(r))
            => /\ Befores(t) = Registered
               /\ Afters(t) = Reverse(Registered)

\* C4: exactly one response. On the paths success, 404, and an APIException or
\* another exception raised by a before hook or by the handler, a request that
\* has ended has emitted exactly one response; no request emits twice or calls
\* its handler twice, and a request that is done stays done.
C4_ExactlyOneResponse ==
    \A r \in Requests :
        LET t == tasks[r] IN
        /\ Len(t.emitted) <= 1
        /\ Len(Endpoints(t)) <= 1
        /\ (t.pc = "done") <=> (Len(t.emitted) = 1)
        /\ (t.pc \in Terminal /\ AfterErrorsOf(t, "Exception") = {})
              => t.pc = "done"
        /\ (t.pc \notin Terminal \cup {"idle"})
              => (ENABLED MonitoringReturns(r) \/ ENABLED BeforeReturns(r)
                  \/ ENABLED EndpointReturns(r) \/ ENABLED AfterReturns(r))

\* Two requests have ended on error paths, the 404 and the 500, each with its
\* one response.
C4_Witness ==
    \E r, q \in Requests :
        /\ tasks[r].pc = "done" /\ ~Served(r) /\ Len(tasks[r].emitted) = 1
        /\ tasks[q].pc = "done" /\ EarlyErrors(tasks[q], "Exception") # {}
        /\ Len(tasks[q].emitted) = 1

\* C5: no request-time error crosses the dispatcher. Whatever a hook or the
\* handler raised, a request that has ended has handed one status and body to
\* http_response.
C5_ErrorsNeverEscape ==
    \A r \in Requests :
        tasks[r].pc \in Terminal => Len(tasks[r].emitted) = 1

\* C6: before-pass short-circuit. When a middleware's before hook raises an
\* APIException with status s, no middleware registered after it has its
\* before hook invoked for that request (B raises: C is never invoked), the
\* handler is not invoked, and with no after hook replacing the response the
\* emitted status is s.
C6_BeforeShortCircuit ==
    \A r \in Requests :
        LET t == tasks[r] IN
        \A i \in 1..Len(t.errors) :
            LET x == t.errors[i] IN
            (x.op = "before" /\ x.kind = "APIException")
                => /\ \A j \in 1..Len(t.calls) :
                        IsBefore(t.calls[j]) => Place(t.calls[j].who) <= Place(x.who)
                   /\ Endpoints(t) = <<>>
                   /\ (t.pc = "done" /\ Len(t.errors) = 1)
                        => /\ Len(t.emitted) = 1
                           /\ t.emitted[1].status_code = x.e.status_code

\* C7: after-pass resilience. When an after hook raises an APIException, the
\* next after hook called gets the translated response, every middleware whose
\* after hook had not been invoked yet still has it invoked, and what the
\* next hook did to the response is in the emitted response.
C7_AfterPassResilience ==
    \A r \in Requests :
        LET t == tasks[r] IN
        \A i \in 1..Len(t.errors) :
            LET x == t.errors[i] IN
            (x.op = "after" /\ x.kind = "APIException" /\ t.pc = "done")
                => /\ \A m \in {Registered[k] : k \in 1..Len(Registered)} :
                        (\A j \in 1..x.at : ~(IsAfter(t.calls[j]) /\ t.calls[j].who = m))
                            => \E j \in (x.at + 1)..Len(t.calls) :
                                    IsAfter(t.calls[j]) /\ t.calls[j].who = m
                   /\ Len(t.calls) > x.at
                        => /\ IsAfter(t.calls[x.at + 1])
                           /\ t.calls[x.at + 1].arg = handle_exceptions(x.e)
                           /\ Len(t.errors) = 1
                                => /\ Len(t.emitted) = 1
                                   /\ t.emitted[1].status_code = x.e.status_code
                                   /\ t.emitted[1].body.added[1] = t.calls[x.at + 1].who

\* C8: not found. A request whose path is no key of the route table is
\* answered 404 with the exception flag, by its own monitoring object, as soon
\* as the lookup is made, and no before hook, handler or after hook is invoked
\* for it.
C8_NotFound ==
    \A r \in Requests :
        LET t == tasks[r] IN
        (t.pc \notin {"idle", "monitoring"} /\ t.scope \notin DOMAIN urls)
            => /\ t.pc = "done"
               /\ Emitted(r, 404, TRUE, NoData)
               /\ t.calls = <<>>
               /\ t.errors = <<>>

\* A request for the unregistered path "/", a prefix of the registered "/u",
\* has been answered.
C8_Witness ==
    \E r \in Requests :
        /\ tasks[r].scope = RootPath /\ RootPath \notin DOMAIN urls
        /\ tasks[r].pc = "done"

\* C9: unhandled error. An exception that is no APIException, raised by a
\* before hook or by the handler, ends the request with the fixed 500 response,
\* the exception flag set and no body; nothing is invoked after the call that
\* raised, no after hook at all; it is logged critical once, and nothing else
\* is logged critical.
C9_UnhandledError ==
    \A r \in Requests :
        LET t == tasks[r] IN
        /\ t.logged = Cardinality(EarlyErrors(t, "Exception"))
        /\ \A i \in EarlyErrors(t, "Exception") :
              /\ t.pc = "done"
              /\ Emitted(r, 500, TRUE, NoData)
              /\ Len(t.calls) = t.errors[i].at
              /\ Afters(t) = <<>>
              /\ t.response = NoResponse
              /\ i = Len(t.errors)

\* B's before hook raised a ValueError after A's returned, and the request is
\* done.
C9_Witness ==
    \E r \in Requests :
        LET t == tasks[r] IN
        /\ t.pc = "done"
        /\ Len(t.errors) = 1
        /\ t.errors[1].op = "before" /\ t.errors[1].kind = "Exception"
        /\ Befores(t) = <<"A", "B">>

\* C10 as written: after an APIException of a before hook or of the handler no
\* after hook is invoked for the request.
C10_AfterPassSkipped ==
    \A r \in Requests :
        EarlyErrors(tasks[r], "APIException") # {} => Afters(tasks[r]) = <<>>

\* C10 as the code has it: after an APIException of a before hook or of the
\* handler no further before hook and no handler is invoked, and the after
\* pass is not skipped: the next call is an after hook, on the translated
\* response, and a request that is done has made one after call per chain
\* position and then emitted.
C10_AfterPassRuns ==
    \A r \in Requests :
        LET t == tasks[r] IN
        \A i \in EarlyErrors(t, "APIException") :
            LET x == t.errors[i] IN
            /\ i = 1
            /\ \A j \in (x.at + 1)..Len(t.calls) : IsAfter(t.calls[j])
            /\ Len(middlewares) > 0
                 => /\ Len(t.calls) > x.at
                    /\ t.calls[x.at + 1].arg.status_code = x.e.status_code
                    /\ t.calls[x.at + 1].arg.data.added = <<>>
                    /\ t.calls[x.at + 1].arg.data.kind = "dict"
            /\ t.pc = "done"
                 => /\ Len(Afters(t)) = Len(middlewares)
                    /\ Len(t.emitted) = 1

\* B's before hook raised an APIException, all three after hooks were invoked
\* and the request is done.
C10_Witness ==
    \E r \in Requests :
        LET t == tasks[r] IN
        /\ t.pc = "done"
        /\ Len(t.errors) = 1
        /\ t.errors[1].op = "before" /\ t.errors[1].kind = "APIException"
        /\ t.errors[1].who = "B"
        /\ Len(Afters(t)) = 3

\* C11: the exception translator. For every APIException with status code s
\* and detail d, handle_exceptions gives a Response with status code s whose
\* data is d itself when d is a dict and {'detail': d} otherwise; it is
\* defined for every APIException, and the chain and the route table are what
\* they were.
C11_Translate ==
    /\ ~probe.done => ENABLED Translate
    /\ probe.done =>
          /\ probe.response.status_code = probe.e.status_code
          /\ probe.e.detail.kind = "dict" => probe.response.data = probe.e.detail
          /\ probe.e.detail.kind # "dict" =>
                probe.response.data = [kind |-> "dict", key |-> "detail",
                                       val |-> probe.e.detail.val, added |-> <<>>]
          /\ middlewares = Registered
          /\ urls = (UsersPath :> "users_api")

\* APIException(detail='bad input', status_code=400) has been translated.
C11_Witness ==
    /\ probe.done
    /\ probe.e = APIException(400, Str("bad input"))
    /\ probe.response.status_code = 400

\* ------------------------------------------------ reading the configuration
\* The endpoints of a urls dict in the dict's order, each with the urls of the
\* dicts around it, outermost first.
RECURSIVE LeavesOf(_, _)
LeavesOf(groups, urlsdict) ==
    IF urlsdict = <<>> THEN <<>>
    ELSE LET item == Head(urlsdict) IN
         (IF item.isdict THEN LeavesOf(Append(groups, item.url), item.sub)
          ELSE << [groups |-> groups, url |-> item.url, endpoint |-> item.endpoint] >>)
            \o LeavesOf(groups, Tail(urlsdict))
ConfiguredLeaves == LeavesOf(<<>>, app.settings.urls)

\* The keys of the enclosing groups, concatenated, then the leaf key.
RECURSIVE Concatenated(_)
Concatenated(keys) == IF keys = <<>> THEN <<>> ELSE Head(keys) \o Concatenated(Tail(keys))
ConcatenatedPath(leaf) == Concatenated(leaf.groups) \o leaf.url

\* '/' and the key for each enclosing group, concatenated, then the leaf key.
RECURSIVE Slashed(_)
Slashed(keys) == IF keys = <<>> THEN <<>> ELSE <<"/">> \o Head(keys) \o Slashed(Tail(keys))
SlashedPath(leaf) == Slashed(leaf.groups) \o leaf.url

\* The configured middlewares that are subclasses of BaseMiddleware, in the
\* order of the configuration, and the others.
IsBase(item) == item.base
Accepted == Who([i \in 1..Len(SelectSeq(app.settings.Middlewares, IsBase)) |->
                    [who |-> SelectSeq(app.settings.Middlewares, IsBase)[i].path]])
RejectedItems == {i \in 1..Len(app.settings.Middlewares) : ~app.settings.Middlewares[i].base}

\* C12: a handler's APIException end to end. With an empty chain, a handler
\* that raises an APIException with status s and a scalar detail d has the one
\* response (s, {'detail': d}) emitted, by the normal exit, without the
\* exception flag.
C12_HandlerError ==
    \A r \in Requests :
        LET t == tasks[r] IN
        \A i \in EarlyErrors(t, "APIException") :
            LET x == t.errors[i] IN
            (app.settings.Middlewares = <<>> /\ x.op = "endpoint" /\ x.e.detail.kind = "str")
                => /\ t.pc = "done"
                   /\ Emitted(r, x.e.status_code, FALSE,
                              [kind |-> "dict", key |-> "detail",
                               val |-> x.e.detail.val, added |-> <<>>])
                   /\ t.calls = << [op |-> "endpoint", who |-> t.endpoint, arg |-> t.request] >>

\* No middleware, /u registered, the handler raised APIException(409,
\* 'conflict') and (409, {'detail': 'conflict'}) was emitted.
C12_Witness ==
    \E r \in Requests :
        /\ middlewares = <<>> /\ app.settings.Middlewares = <<>>
        /\ tasks[r].scope = UsersPath
        /\ Emitted(r, 409, FALSE, Dict("detail", "conflict"))

\* C13: exact match only. The lookup of a path that is a key of the route
\* table gives the endpoint registered for it; the lookup of any other path,
\* a prefix or a suffix of a key too, gives not-found (404), and raises
\* nothing.
C13_ExactMatch ==
    \A r \in Requests :
        LET t == tasks[r] IN
        t.pc \notin {"idle", "monitoring"}
            => /\ t.scope \in DOMAIN urls => t.endpoint = urls[t.scope]
               /\ t.scope \notin DOMAIN urls
                    => /\ t.endpoint = None
                       /\ Emitted(r, 404, TRUE, NoData)
                       /\ t.errors = <<>>

\* "u", a suffix of the registered "/u", was looked up and not found.
C13_Witness ==
    \E r \in Requests :
        /\ UsersPath \in DOMAIN urls
        /\ tasks[r].scope = <<"u">>
        /\ tasks[r].pc = "done"
        /\ tasks[r].endpoint = None

\* C14: placeholder routes are rejected at load time. After loading, no entry
\* of the route table has None or Ellipsis for its endpoint, and no request
\* for a configured placeholder route is answered at request time.
C14_PlaceholdersRejected ==
    /\ app.loaded => \A p \in DOMAIN urls : urls[p] \notin {None, Ellipsis}
    /\ \A r \in Requests :
          tasks[r].pc = "done" =>
            \A i \in 1..Len(ConfiguredLeaves) :
                (/\ ConfiguredLeaves[i].endpoint \in {None, Ellipsis}
                 /\ tasks[r].scope = SlashedPath(ConfiguredLeaves[i]))
                    => urls[tasks[r].scope] \notin {None, Ellipsis}

\* C15: middleware loading. The chain built at startup holds the configured
\* middlewares that are subclasses of BaseMiddleware, in the order of the
\* configuration; every other one is logged critical and left out, and no hook
\* of it is invoked by a request.
C15_MiddlewareLoading ==
    /\ (app.loaded /\ \A r \in Requests : tasks[r].response = NoResponse)
          => middlewares = Accepted
    /\ app.loaded => middlewares \in {Accepted, Reverse(Accepted)}
    /\ app.loaded => app.criticals = Cardinality(RejectedItems)
    /\ \A r \in Requests : \A j \in 1..Len(tasks[r].calls) :
          LET c == tasks[r].calls[j] IN
          c.op \in {"before", "after"} =>
              /\ \E i \in 1..Len(Accepted) : Accepted[i] = c.who
              /\ \A i \in RejectedItems : app.settings.Middlewares[i].path # c.who

\* [A, X, B] with X no BaseMiddleware was loaded as [A, B] and a request was
\* served with the hooks of A and B.
C15_Witness ==
    \E r \in Requests :
        /\ app.loaded /\ RejectedItems # {}
        /\ Accepted = <<"A", "B">>
        /\ tasks[r].pc = "done"
        /\ Befores(tasks[r]) = <<"A", "B">>

\* C18 as written: the route table holds one entry per leaf, keyed by the keys
\* of the enclosing groups concatenated and followed by the leaf key.
C18_Flattened ==
    app.loaded =>
        /\ DOMAIN urls = {ConcatenatedPath(ConfiguredLeaves[i]) : i \in 1..Len(ConfiguredLeaves)}
        /\ Cardinality(DOMAIN urls) = Len(ConfiguredLeaves)

\* C18 as the code has it: the keys of the route table are the paths of the
\* leaves, each '/' and the key for every enclosing group followed by the leaf
\* key; a group has no entry of its own; an entry holds the endpoint of the
\* last leaf with its path, so leaves with different paths never overwrite
\* each other and, when all paths differ, there is one entry per leaf.
C18_FlattenedSlashed ==
    app.loaded =>
        LET leaves == ConfiguredLeaves
            n == Len(leaves) IN
        /\ DOMAIN urls = {SlashedPath(leaves[i]) : i \in 1..n}
        /\ \A i \in 1..n :
              (\A j \in (i + 1)..n : SlashedPath(leaves[j]) # SlashedPath(leaves[i]))
                  => urls[SlashedPath(leaves[i])] = leaves[i].endpoint
        /\ (\A i, j \in 1..n : i # j => SlashedPath(leaves[i]) # SlashedPath(leaves[j]))
              => Cardinality(DOMAIN urls) = n

\* {'a': {'b': {'/u': ...}, '/u': ...}, '/u': ...} was loaded as the three
\* routes /a/b/u, /a/u and /u.
C18_Witness ==
    /\ app.loaded
    /\ Len(ConfiguredLeaves) = 3
    /\ DOMAIN urls = { <<"/", "a", "/", "b", "/", "u">>, <<"/", "a", "/", "u">>, <<"/", "u">> }
    /\ urls[<<"/", "a", "/", "b", "/", "u">>] = "ab_users_api"

\* ------------------------------------------------------ reading a task
\* The j-th call of the task raised.
RaisedAt(t, j) == \E i \in 1..Len(t.errors) : t.errors[i].at = j

\* The requests that reached `config['middlewares'].reverse()`: the ones with
\* a response bound, by the endpoint or by except APIException.
ReachedAfterPass == {r \in Requests : tasks[r].response # NoResponse}

\* The requests answered 404 or 500 by an early return of run().
ErrorExits == {r \in Requests : tasks[r].pc = "done" /\ tasks[r].emitted[1].exception}

\* C16: request and response threading. The first before hook gets the
\* Request of the scope, every next before hook gets the Request the hook
\* before it returned, and the handler gets the Request the last before hook
\* returned; every after hook that follows an after hook that returned gets the
\* Response that one returned, and the Response the last after hook returned
\* is the one emitted.
C16_Threading ==
    \A r \in Requests :
        LET t == tasks[r]
            n == Len(t.calls) IN
        /\ \A j \in 1..n :
              LET c == t.calls[j] IN
              /\ (j = 1 /\ c.op \in {"before", "endpoint"}) => c.arg = Request(t.scope)
              /\ (j > 1 /\ c.op \in {"before", "endpoint"})
                    => /\ t.calls[j - 1].op = "before"
                       /\ c.arg = before_hook(t.calls[j - 1].who, t.calls[j - 1].arg)
              /\ (j > 1 /\ c.op = "after" /\ t.calls[j - 1].op = "after" /\ ~RaisedAt(t, j - 1))
                    => c.arg = after_hook(t.calls[j - 1].who, t.calls[j - 1].arg)
        /\ (t.pc = "done" /\ n > 0 /\ ~t.emitted[1].exception
                /\ t.calls[n].op = "after" /\ ~RaisedAt(t, n))
                    => /\ t.emitted[1].body = after_hook(t.calls[n].who, t.calls[n].arg).data
                       /\ t.emitted[1].status_code = t.calls[n].arg.status_code

\* A request went through three before hooks, the handler and three after
\* hooks with nothing raised: the handler got the Request of the third before
\* hook and the body emitted went through the three after hooks.
C16_Witness ==
    \E r \in Requests :
        LET t == tasks[r] IN
        /\ t.pc = "done" /\ t.errors = <<>>
        /\ Len(t.calls) = 7
        /\ Len(t.calls[4].arg.via) = 3
        /\ Len(t.emitted[1].body.added) = 3

\* C17: monitoring signal ordering. Every request that started has opened
\* one monitoring signal of its own, once; while that is awaited the route is
\* not looked up, no hook is invoked and nothing is emitted; and every
\* response emitted for a request, a 404 or a 500 too, carries the signal of
\* that request.
C17_Monitoring ==
    \A r \in Requests :
        LET t == tasks[r] IN
        /\ t.pc = "idle" => (t.opened = 0 /\ t.calls = <<>> /\ t.emitted = <<>>)
        /\ t.pc # "idle"
              => /\ t.opened = 1
                 /\ t.monitoring # 0
                 /\ \A q \in Requests \ {r} : tasks[q].monitoring # t.monitoring
        /\ t.pc = "monitoring"
              => (t.endpoint = None /\ t.calls = <<>> /\ t.emitted = <<>>)
        /\ \A i \in 1..Len(t.emitted) : t.emitted[i].monitoring = t.monitoring

\* Two requests were in flight together, one answered 404 and one 500, each
\* with its own signal.
C17_Witness ==
    \E r, q \in Requests :
        /\ r # q /\ ~tasks[r].alone /\ ~tasks[q].alone
        /\ tasks[r].pc = "done" /\ tasks[q].pc = "done"
        /\ tasks[r].emitted[1].status_code = 404 /\ tasks[r].emitted[1].monitoring = r
        /\ tasks[q].emitted[1].status_code = 500 /\ tasks[q].emitted[1].monitoring = q

\* C19: chain content. In every state the shared chain holds the middlewares
\* loaded at startup, each once, in the order of registration or in the
\* reverse of it.
C19_ChainContent ==
    /\ Len(middlewares) = Len(Registered)
    /\ \A i \in 1..Len(Registered) :
          Cardinality({j \in 1..Len(middlewares) : middlewares[j] = Registered[i]}) = 1
    /\ \/ \A i \in 1..Len(Registered) : middlewares[i] = Registered[i]
       \/ \A i \in 1..Len(Registered) : middlewares[i] = Registered[Len(Registered) + 1 - i]

\* Two requests interleaved: one reached the after pass and ended while the
\* other was in its before loop, and the chain is [C, B, A].
C19_Witness ==
    /\ middlewares = <<"C", "B", "A">>
    /\ \E r, q \in Requests :
          /\ r # q /\ ~tasks[r].alone
          /\ tasks[r].pc = "done" /\ r \in ReachedAfterPass
          /\ tasks[q].pc = "before"

\* C20: frame of the error exits. The route table never changes; a request
\* answered 404 or 500 by an early return has not reached the after pass; and
\* the chain is in registration order exactly when the number of requests
\* that reached the after pass is even, and reversed when it is odd.
C20_ErrorExitFrame ==
    /\ urls = (UsersPath :> "users_api")
    /\ ErrorExits \cap ReachedAfterPass = {}
    /\ Cardinality(ReachedAfterPass) % 2 = 0
          => \A i \in 1..Len(Registered) : middlewares[i] = Registered[i]
    /\ Cardinality(ReachedAfterPass) % 2 = 1
          => \A i \in 1..Len(Registered) : middlewares[i] = Registered[Len(Registered) + 1 - i]

\* A request was served through the after pass, then one ended in 404: the
\* chain is still as the first one left it, reversed.
C20_Witness ==
    \E r, q \in Requests :
        /\ tasks[r].alone /\ tasks[q].alone
        /\ r \in ReachedAfterPass /\ tasks[r].pc = "done"
        /\ q \in ErrorExits /\ tasks[q].emitted[1].status_code \in {404, 500}
        /\ middlewares = <<"C", "B", "A">>

====
